---- MODULE Spec2Model ----
(***************************************************************************)
(* smallsh (src/smallsh.c): a small interactive shell.  The model follows  *)
(* the main loop of main(), the launcher executeCommand(), the sweep       *)
(* checkBackgroundProcesses(), the SIGTSTP handler and the children the    *)
(* shell forks.  C strings are sequences of one-character strings, a       *)
(* pointer into the line buffer is a 1-based offset, NULL is 0 (for a      *)
(* char* into the buffer) or the empty sequence (for an args[] entry:      *)
(* strtok never yields an empty token).                                    *)
(***************************************************************************)
EXTENDS Integers, Sequences, FiniteSets, TLC

\* ------------------------------------------------------------------------
\* Bounds of the model
\* ------------------------------------------------------------------------
\* number of children the shell may fork in one run
MaxChildren == 2

\* ------------------------------------------------------------------------
\* Program constants
\* ------------------------------------------------------------------------
MAX_CMD_LEN == 2048
MAX_ARGS == 512

\* the value getpid() returns in the shell
ShellPid == 42

NUL == "NUL"
NL == "NL"
SP == " "

SIGINT == 2
SIGKILL == 9

\* ------------------------------------------------------------------------
\* C strings
\* ------------------------------------------------------------------------
\* first index i >= from with buf[i] in stop (the buffer always holds a NUL
\* after from)
RECURSIVE Scan(_, _, _)
Scan(buf, from, stop) ==
    IF from > Len(buf) \/ buf[from] \in stop THEN from
    ELSE Scan(buf, from + 1, stop)

\* first index i >= from with buf[i] # SP : from + strspn(from, " ")
RECURSIVE SkipDelims(_, _)
SkipDelims(buf, from) ==
    IF from <= Len(buf) /\ buf[from] = SP THEN SkipDelims(buf, from + 1)
    ELSE from

\* the NUL-terminated string that starts at offset p of buf
CStr(buf, p) == SubSeq(buf, p, Scan(buf, p, {NUL}) - 1)

\* strstr(s, "$$"): index of the first "$$" in s, 0 when there is none
RECURSIVE StrStrPid(_, _)
StrStrPid(s, i) ==
    IF i + 1 > Len(s) THEN 0
    ELSE IF s[i] = "$" /\ s[i + 1] = "$" THEN i
    ELSE StrStrPid(s, i + 1)

DigitChar(d) == <<"0", "1", "2", "3", "4", "5", "6", "7", "8", "9">>[d + 1]

\* snprintf(pid_str, sizeof(pid_str), "%d", pid) for pid >= 0
RECURSIVE Decimal(_)
Decimal(n) ==
    IF n < 10 THEN <<DigitChar(n)>>
    ELSE Decimal(n \div 10) \o <<DigitChar(n % 10)>>

\* expandPID(token)
RECURSIVE expandPIDAll(_)
expandPIDAll(token) ==
    LET pos == StrStrPid(token, 1)
    IN  IF pos = 0 THEN token
        ELSE SubSeq(token, 1, pos - 1) \o Decimal(ShellPid)
                 \o expandPIDAll(SubSeq(token, pos + 2, Len(token)))

expandPID(token) ==
    LET pos == StrStrPid(token, 1)
    IN  IF pos = 0 THEN token
        ELSE SubSeq(token, 1, pos - 1) \o Decimal(ShellPid)
                 \o SubSeq(token, pos + 2, Len(token))

\* ------------------------------------------------------------------------
\* strtok(s, " ") on the line buffer.  olds is strtok's saved position; the
\* result is the token's offset (0 for NULL), the buffer with the delimiter
\* that ends the token overwritten by NUL, and the new saved position.
\* ------------------------------------------------------------------------
StrtokFrom(buf, t) ==
    LET e == Scan(buf, t, {SP, NUL})
    IN  IF t > Len(buf) \/ buf[t] = NUL
            THEN [tok |-> 0, buf |-> buf, olds |-> t]
        ELSE IF e > Len(buf) \/ buf[e] = NUL
            THEN [tok |-> t, buf |-> buf, olds |-> e]
        ELSE [tok |-> t, buf |-> [buf EXCEPT ![e] = NUL], olds |-> e + 1]

Strtok(buf, olds) ==
    CHOOSE res \in {StrtokFrom(buf, t) : t \in {SkipDelims(buf, olds)}} : TRUE

\* ------------------------------------------------------------------------
\* parseInput
\* ------------------------------------------------------------------------
\* the value parseInput returns: 0 for a blank line or a comment
ParseReturnNoComment(args) ==
    IF args = <<>> THEN 0 ELSE 1

ParseReturn(args) ==
    IF args = <<>> \/ Head(args)[1] = "#" THEN 0 ELSE 1

\* the branch of the loop body that handles token: st holds the buffer,
\* strtok's position and the out-parameters, fg is fgOnlyMode
ParseBranch(st, token, fg) ==
    LET s == CStr(st.buf, token)
        r == Strtok(st.buf, st.olds)
        \* state after the one strtok call the first three branches make
        st1 == [st EXCEPT !.buf = r.buf, !.olds = r.olds]
    IN  IF s = <<"<">> THEN [st1 EXCEPT !.inputFile = r.tok]
        ELSE IF s = <<">">> THEN [st1 EXCEPT !.outputFile = r.tok]
        ELSE IF s = <<"&">> THEN
             \* strtok(NULL, " ") is called as part of the condition
             IF r.tok = 0
               THEN [st1 EXCEPT !.background =
                                  IF fg = 0 THEN 1 ELSE st.background]
               ELSE [st1 EXCEPT !.args = Append(st.args, expandPID(s)),
                                !.expanded = st.expanded \/ StrStrPid(s, 1) # 0]
        ELSE [st EXCEPT !.args = Append(st.args, expandPID(s)),
                        !.expanded = st.expanded \/ StrStrPid(s, 1) # 0]

\* one iteration of the while loop of parseInput: the branch, then the
\* strtok call that ends the body.  The result is the state and the token of
\* the next iteration.  (Here and below, binding a name to the one element
\* of a set makes TLC compute that value once.)
ParseBody(st, token, fg) ==
    CHOOSE res \in UNION {
        { [st |-> [b EXCEPT !.buf = n.buf, !.olds = n.olds], tok |-> n.tok] :
            n \in {Strtok(b.buf, b.olds)} } :
        b \in {ParseBranch(st, token, fg)} } : TRUE

\* the loop's test of argCount against the capacity of args[]
ParseLoopGuardOffByOne(argCount, cap) == argCount < cap

ParseLoopGuard(argCount, cap) == argCount < cap - 1

\* the while loop of parseInput; cap is the capacity of args[]
RECURSIVE ParseLoop(_, _, _, _)
ParseLoop(st, token, fg, cap) ==
    IF token = 0 \/ ~ParseLoopGuard(Len(st.args), cap) THEN st
    ELSE CHOOSE res \in {ParseLoop(nx.st, nx.tok, fg, cap) :
                            nx \in {ParseBody(st, token, fg)}} : TRUE

\* parseInput(input, args, &inputFile, &outputFile, &background): the
\* buffer and the out-parameters after the call, and the returned value.
\* expanded tells whether expandPID had to allocate (a token held "$$").
parseInput(buf, inF, outF, fg, cap) ==
    CHOOSE res \in
      { [buf |-> st.buf, args |-> st.args, inputFile |-> st.inputFile,
         outputFile |-> st.outputFile, background |-> st.background,
         expanded |-> st.expanded, ret |-> ParseReturn(st.args)] :
        st \in { ParseLoop([buf |-> first.buf, olds |-> first.olds,
                            args |-> <<>>, inputFile |-> inF,
                            outputFile |-> outF, background |-> 0,
                            expanded |-> FALSE], first.tok, fg, cap) :
                 first \in {Strtok(buf, 1)} } } : TRUE

\* ------------------------------------------------------------------------
\* wait statuses (the macros of <sys/wait.h> the program uses)
\* ------------------------------------------------------------------------
\* the status waitpid stores for a child that exited with code, or that was
\* killed by signal code
WaitStatus(how, code) ==
    IF how = "exit" THEN (code % 256) * 256 ELSE code

WIFEXITED(s) == s % 128 = 0
WEXITSTATUS(s) == (s \div 256) % 256
WTERMSIG(s) == s % 128
WIFSIGNALED(s) == (s % 128) # 0 /\ (s % 128) # 127

\* ------------------------------------------------------------------------
\* Output lines
\* ------------------------------------------------------------------------
Ln(msg, pid, val) == [msg |-> msg, pid |-> pid, val |-> val]

Prompt == Ln(": ", 0, 0)
EnterNotice == Ln("Entering foreground-only mode (& is now ignored)", 0, 0)
ExitNotice == Ln("Exiting foreground-only mode", 0, 0)
BackgroundPidLine(pid) == Ln("background pid is", pid, 0)
ExitValueLine(n) == Ln("exit value", 0, n)
TermSignalLine(n) == Ln("terminated by signal", 0, n)
Perror(what) == Ln(what, 0, 0)

\* the line the status builtin prints (main, the "status" branch)
StatusBuiltinLine(status) == ExitValueLine(WEXITSTATUS(status))

\* the completion line of the sweep
DoneLineExitOnly(pid, status) ==
    Ln("background pid is done: exit value", pid, WEXITSTATUS(status))

DoneLine(pid, status) ==
    IF WIFEXITED(status)
        THEN Ln("background pid is done: exit value", pid, WEXITSTATUS(status))
    ELSE IF WIFSIGNALED(status)
        THEN Ln("background pid is done: terminated by signal", pid, WTERMSIG(status))
    ELSE Ln("background pid is done: ", pid, 0)

\* ------------------------------------------------------------------------
\* Decisions of the launcher and of the handler
\* ------------------------------------------------------------------------
\* executeCommand's first statement: the background flag the launch uses
ForceForegroundNever(background, fg) == background

ForceForeground(background, fg) ==
    IF fg = 1 THEN 0 ELSE background

\* the SIGINT disposition the child installs
ChildSigintAlwaysDefault(background) == "DFL"

ChildSigint(background) ==
    IF background # 0 THEN "IGN" ELSE "DFL"

\* the SIGINT disposition main installs in the shell
ShellSigint == "IGN"

\* the exit code of a child whose setup or exec failed
ChildFailureCodeZero(err) == 0

ChildFailureCode(err) == 1

\* how the shell ends on a failure it cannot continue from (fork, malloc)
FatalExitZero == "exit0"

FatalExit == "exit1"

\* handle_SIGTSTP: the new mode and the notice written
ToggledModeSticky(fg) == 1

ToggledMode(fg) == IF fg = 0 THEN 1 ELSE 0

ToggleNotice(fg) == IF fg = 0 THEN EnterNotice ELSE ExitNotice

\* ------------------------------------------------------------------------
\* Inputs
\* ------------------------------------------------------------------------
RECURSIVE Join(_)
Join(toks) ==
    IF toks = <<>> THEN <<>>
    ELSE IF Len(toks) = 1 THEN toks[1]
    ELSE toks[1] \o <<SP>> \o Join(Tail(toks))

LS == <<"l", "s">>
EXIT == <<"e", "x", "i", "t">>
CD == <<"c", "d">>
STATUS == <<"s", "t", "a", "t", "u", "s">>
AMP == <<"&">>
LT == <<"<">>
GT == <<">">>
HASH == <<"#">>
FileF == <<"f">>
PidArg == <<"$", "$">>

\* getenv("HOME"), and the directories chdir can enter
HomeDir == <<"h">>
StartDir == <<"/">>
Dirs == {HomeDir, StartDir}

\* l followed by blanks up to length n
RECURSIVE Pad(_, _)
Pad(l, n) == IF Len(l) >= n THEN l ELSE Pad(l \o <<SP>>, n)

\* length of the lines the user types (shorter ones end in blanks)
LineLen == Len(STATUS)

\* the lines the user types
Lines ==
    { <<>> } \cup
    { Pad(l, LineLen) : l \in
        { <<SP>>, <<"#", "c">>, Join(<<HASH, GT, FileF>>),
          EXIT, CD, Join(<<CD, PidArg>>), STATUS,
          LS, Join(<<LS, AMP>>), Join(<<LS, AMP, AMP>>),
          Join(<<LS, LT, FileF>>), Join(<<LS, GT, FileF>>) } }

\* exit codes of the programs the children run, and the signals sent to a
\* child from outside the shell
ExitCodes == {0, 3}
ExtSignals == {15}

\* ------------------------------------------------------------------------
\* State
\* ------------------------------------------------------------------------
VARIABLES
    pc,           \* position of the shell in main / executeCommand / sweep
    fgOnlyMode,   \* global fgOnlyMode
    lastStatus,   \* global lastStatus
    input,        \* main's input[]: the part of the buffer written so far
    args,         \* main's args[] up to its NULL terminator
    inputFile,    \* main's inputFile  (offset into input, 0 = NULL)
    outputFile,   \* main's outputFile (offset into input, 0 = NULL)
    background,   \* main's background
    bgLocal,      \* executeCommand's parameter background
    spawnpid,     \* executeCommand's spawnpid
    sweepPid,     \* checkBackgroundProcesses' pid
    childStatus,  \* checkBackgroundProcesses' childStatus
    children,     \* the processes forked so far, indexed by pid
    cwd,          \* the shell's working directory
    shellExit,    \* how the shell process ended: "running", "exit0", "exit1", "sigint"
    out,          \* what the last step wrote to the terminal
    line,         \* history: the line the current iteration read
    entryFg,      \* history: fgOnlyMode when executeCommand was entered
    modeStable,   \* history: no SIGTSTP since the current line was parsed
    toggles,      \* history: number of SIGTSTP deliveries, modulo 2
    lastFg,       \* history: pid of the last child the shell waited for
    reported,     \* history: per pid, completion lines printed by sweeps
    shutdownRan   \* history: killBackgroundProcesses has been called

vars == <<pc, fgOnlyMode, lastStatus, input, args, inputFile, outputFile,
          background, bgLocal, spawnpid, sweepPid, childStatus, children,
          cwd, shellExit, out, line, entryFg, modeStable, toggles, lastFg,
          reported, shutdownRan>>

shellVars == <<fgOnlyMode, lastStatus, cwd, shellExit>>
parseVars == <<input, args, inputFile, outputFile, background>>
launchVars == <<bgLocal, spawnpid>>
sweepVars == <<sweepPid, childStatus>>
histVars == <<line, entryFg, modeStable, toggles, lastFg, reported,
              shutdownRan>>

Pids == 1..Len(children)

Init ==
    /\ pc = "sweep"
    /\ fgOnlyMode = 0
    /\ lastStatus = 0
    /\ input = <<>>
    /\ args = <<>>
    /\ inputFile = 0
    /\ outputFile = 0
    /\ background = 0
    /\ bgLocal = 0
    /\ spawnpid = 0
    /\ sweepPid = 0
    /\ childStatus = 0
    /\ children = <<>>
    /\ cwd = StartDir
    /\ shellExit = "running"
    /\ out = <<>>
    /\ line = <<>>
    /\ entryFg = 0
    /\ modeStable = TRUE
    /\ toggles = 0
    /\ lastFg = 0
    /\ reported = <<>>
    /\ shutdownRan = FALSE


\* ------------------------------------------------------------------------
\* checkBackgroundProcesses (the sweep at the top of the loop)
\* ------------------------------------------------------------------------
\* child c terminates: its descriptors are closed and its memory is freed;
\* what remains is the outcome waitpid reports (failed: the child ended in
\* one of the exit(1) of its setup) and, in fds, the redirection descriptors
\* that were open when it called execvp or exit
Terminated(c, how, code, err) ==
    [c EXCEPT !.state = "zombie", !.how = how, !.code = code,
              !.failed = err,
              !.hasIn = FALSE, !.inFile = <<>>, !.hasOut = FALSE,
              !.outFile = <<>>, !.stdin = "closed", !.stdout = "closed"]

\* waitpid collects child p; by tells which call did ("wait" in
\* executeCommand, "sweep" in checkBackgroundProcesses)
Reap(p, by) == [children EXCEPT ![p].state = "reaped", ![p].reapedBy = by]

\* lastStatus once the sweep's waitpid has stored the status st: the sweep
\* passes the address of its local childStatus, lastStatus keeps its value
LastStatusAfterSweepShared(last, st) == st

LastStatusAfterSweep(last, st) == last

\* waitpid(-1, &childStatus, WNOHANG) finds a terminated child
SweepReap ==
    /\ pc = "sweep"
    /\ \E p \in Pids :
          /\ children[p].state = "zombie"
          /\ children' = Reap(p, "sweep")
          /\ sweepPid' = p
          /\ childStatus' = WaitStatus(children[p].how, children[p].code)
          /\ lastStatus' = LastStatusAfterSweep(lastStatus, childStatus')
    /\ pc' = "sweepReport"
    /\ out' = <<>>
    /\ UNCHANGED <<fgOnlyMode, cwd, shellExit, parseVars, launchVars,
                   histVars>>

\* the sweep's test of the mode: does it print the completion line?
SweepPrintsAlways(fg) == TRUE

SweepPrints(fg) == fg = 0

\* the body of the sweep's loop for the child just reaped
SweepReport ==
    /\ pc = "sweepReport"
    /\ IF SweepPrints(fgOnlyMode)
         THEN /\ out' = <<DoneLine(sweepPid, childStatus)>>
              /\ reported' = [reported EXCEPT ![sweepPid] = @ + 1]
         ELSE /\ out' = <<>>
              /\ UNCHANGED reported
    /\ pc' = "sweep"
    /\ UNCHANGED <<shellVars, parseVars, launchVars, sweepVars, children,
                   line, entryFg, modeStable, toggles, lastFg,
                   shutdownRan>>

\* waitpid(-1, &childStatus, WNOHANG) returns 0 or -1: no child of ch has
\* terminated and is uncollected
SweepReturnsWhenChildless(ch) ==
    \A p \in DOMAIN ch : ch[p].state = "reaped"

SweepReturns(ch) ==
    \A p \in DOMAIN ch : ch[p].state # "zombie"

\* waitpid finds no terminated child: the sweep returns, main prints the
\* prompt and calls fgets
SweepDone ==
    /\ pc = "sweep"
    /\ SweepReturns(children)
    /\ pc' = "prompt"
    /\ out' = <<Prompt>>
    /\ sweepPid' = 0
    /\ childStatus' = 0
    /\ UNCHANGED <<shellVars, parseVars, launchVars, children, histVars>>

\* ------------------------------------------------------------------------
\* main: reading and parsing a line
\* ------------------------------------------------------------------------
\* fgets(input, MAX_CMD_LEN, stdin) followed by input[strcspn(input, "\n")] = 0
Fgets(buf, l) ==
    LET w == l \o <<NL, NUL>>
        b == w \o SubSeq(buf, Len(w) + 1, Len(buf))
    IN  [b EXCEPT ![Scan(b, 1, {NL, NUL})] = NUL]

IsBuiltin(a) == a \in {EXIT, CD, STATUS}

\* the line makes main call executeCommand
Launches(l) ==
    \E r \in {parseInput(Fgets(<<>>, l), 0, 0, 0, MAX_ARGS)} :
       r.ret = 1 /\ ~IsBuiltin(r.args[1])

ReadLineFrom(S) ==
    /\ pc = "prompt"
    /\ \E l \in S :
          /\ Len(l) + 2 <= MAX_CMD_LEN
          /\ Len(children) < MaxChildren \/ ~Launches(l)
          /\ input' = Fgets(input, l)
          /\ line' = l
    /\ pc' = "parse"
    /\ out' = <<>>
    /\ UNCHANGED <<shellVars, args, inputFile, outputFile, background,
                   launchVars, sweepVars, children, entryFg, modeStable,
                   toggles, lastFg, reported,
                   shutdownRan>>

ReadLine == ReadLineFrom(Lines)

\* fgets returns NULL: clearerr and continue
ReadEOF ==
    /\ pc = "prompt"
    /\ pc' = "sweep"
    /\ out' = <<>>
    /\ UNCHANGED <<shellVars, parseVars, launchVars, sweepVars, children,
                   histVars>>

\* parseInput and the test of its result in main.  On a skipped line main
\* continues: args[] is not read again before the next parseInput rewrites
\* it, and input[] stays observable only through a non-NULL inputFile or
\* outputFile, so the model forgets what can no longer be observed.
ParsedWith(cap) ==
    parseInput(input, inputFile, outputFile, fgOnlyMode, cap)

Parsed == ParsedWith(MAX_ARGS)

\* cap is the capacity of args[]
ParseInputWith(cap) ==
    /\ pc = "parse"
    /\ \E r \in {ParsedWith(cap)} :
          /\ inputFile' = r.inputFile
          /\ outputFile' = r.outputFile
          /\ background' = r.background
          /\ IF r.ret = 0
               THEN /\ pc' = "sweep"
                    /\ args' = <<>>
                    /\ line' = <<>>
                    /\ input' = IF r.inputFile = 0 /\ r.outputFile = 0
                                  THEN <<>> ELSE r.buf
               ELSE /\ pc' = "dispatch"
                    /\ args' = r.args
                    /\ line' = line
                    /\ input' = r.buf
    /\ modeStable' = TRUE
    /\ out' = <<>>
    /\ UNCHANGED <<shellVars, launchVars, sweepVars, children, entryFg,
                   toggles, lastFg, reported, shutdownRan>>

ParseInput == ParseInputWith(MAX_ARGS)

\* malloc fails in expandPID: perror and exit(1)
ParseMallocFail ==
    /\ pc = "parse"
    /\ Parsed.expanded
    /\ pc' = "terminated"
    /\ shellExit' = FatalExit
    /\ out' = <<Perror("malloc")>>
    /\ UNCHANGED <<fgOnlyMode, lastStatus, cwd, parseVars, launchVars,
                   sweepVars, children, histVars>>

\* ------------------------------------------------------------------------
\* main: the builtins
\* ------------------------------------------------------------------------
\* the two assignments that end an iteration of the loop.  With inputFile
\* and outputFile NULL nothing points into input[] any more, and args[] is
\* rewritten up to its terminator before it is read again: the old contents
\* of both can no longer be observed, and the model forgets them.
ResetDirective ==
    /\ inputFile' = 0
    /\ outputFile' = 0
    /\ background' = 0
    /\ input' = <<>>
    /\ args' = <<>>
    /\ line' = <<>>
    /\ modeStable' = TRUE

DoExit ==
    /\ pc = "dispatch"
    /\ args[1] = EXIT
    /\ pc' = "terminated"
    /\ shellExit' = "exit0"
    /\ out' = <<>>
    /\ UNCHANGED <<fgOnlyMode, lastStatus, cwd, parseVars, launchVars,
                   sweepVars, children, histVars>>

DoCd ==
    /\ pc = "dispatch"
    /\ args[1] = CD
    /\ LET target == IF Len(args) >= 2 THEN args[2] ELSE HomeDir
       IN  cwd' = IF target \in Dirs THEN target ELSE cwd
    /\ ResetDirective
    /\ pc' = "sweep"
    /\ out' = <<>>
    /\ UNCHANGED <<fgOnlyMode, lastStatus, shellExit,
                   launchVars, sweepVars, children, entryFg, toggles, lastFg,
                   reported,
                   shutdownRan>>

DoStatus ==
    /\ pc = "dispatch"
    /\ args[1] = STATUS
    /\ out' = <<StatusBuiltinLine(lastStatus)>>
    /\ ResetDirective
    /\ pc' = "sweep"
    /\ UNCHANGED <<shellVars, launchVars, sweepVars, children, entryFg,
                   toggles, lastFg, reported,
                   shutdownRan>>

\* ------------------------------------------------------------------------
\* executeCommand
\* ------------------------------------------------------------------------
\* the call and the test of fgOnlyMode that opens the function
ExecEntry ==
    /\ pc = "dispatch"
    /\ ~IsBuiltin(args[1])
    /\ bgLocal' = ForceForeground(background, fgOnlyMode)
    /\ entryFg' = fgOnlyMode
    /\ pc' = "fork"
    /\ out' = <<>>
    /\ UNCHANGED <<shellVars, parseVars, spawnpid, sweepVars, children, line,
                   modeStable, toggles, lastFg, reported,
                   shutdownRan>>

FileName(p) == IF p = 0 THEN <<>> ELSE CStr(input, p)

\* fork succeeds: the child starts with a copy of the shell's memory and
\* the shell's signal dispositions
Fork ==
    /\ pc = "fork"
    /\ Len(children) < MaxChildren
    /\ children' = Append(children,
                     [state |-> "forked", bg |-> bgLocal,
                      sigint |-> ShellSigint,
                      hasIn |-> inputFile # 0,
                      inFile |-> FileName(inputFile),
                      hasOut |-> outputFile # 0,
                      outFile |-> FileName(outputFile),
                      stdin |-> "tty", stdout |-> "tty", fds |-> {},
                      how |-> "none", code |-> 0, failed |-> FALSE,
                      announced |-> FALSE, reapedBy |-> "none"])
    /\ reported' = Append(reported, 0)
    /\ spawnpid' = Len(children) + 1
    /\ pc' = "parent"
    /\ out' = <<>>
    /\ UNCHANGED <<shellVars, parseVars, bgLocal, sweepVars, line, entryFg,
                   modeStable, toggles, lastFg,
                   shutdownRan>>

\* fork returns -1: perror and exit(1)
ForkFail ==
    /\ pc = "fork"
    /\ spawnpid' = -1
    /\ pc' = "terminated"
    /\ shellExit' = FatalExit
    /\ out' = <<Perror("fork")>>
    /\ UNCHANGED <<fgOnlyMode, lastStatus, cwd, parseVars, bgLocal,
                   sweepVars, children, histVars>>

\* executeCommand returns: its locals are gone
ExecReturn ==
    /\ bgLocal' = 0
    /\ spawnpid' = 0
    /\ entryFg' = 0

\* parent, background branch
ParentBackground ==
    /\ pc = "parent"
    /\ bgLocal # 0 /\ fgOnlyMode = 0
    /\ out' = <<BackgroundPidLine(spawnpid)>>
    /\ children' = [children EXCEPT ![spawnpid].announced = TRUE]
    /\ ExecReturn
    /\ ResetDirective
    /\ pc' = "sweep"
    /\ UNCHANGED <<shellVars, sweepVars, toggles, lastFg, reported,
                   shutdownRan>>

\* parent, foreground branch: the call of waitpid(spawnpid, &lastStatus, 0)
ParentWait ==
    /\ pc = "parent"
    /\ ~(bgLocal # 0 /\ fgOnlyMode = 0)
    /\ pc' = "wait"
    /\ out' = <<>>
    /\ UNCHANGED <<shellVars, parseVars, launchVars, sweepVars, children,
                   histVars>>

\* what the parent prints after the wait for status st
WaitReportAlways(st) == <<TermSignalLine(WTERMSIG(st))>>

WaitReport(st) ==
    IF WIFSIGNALED(st) THEN <<TermSignalLine(WTERMSIG(st))>> ELSE <<>>

\* waitpid returns once the child has terminated
WaitReturn ==
    /\ pc = "wait"
    /\ children[spawnpid].state = "zombie"
    /\ children' = Reap(spawnpid, "wait")
    /\ LET st == WaitStatus(children[spawnpid].how, children[spawnpid].code)
       IN  /\ lastStatus' = st
           /\ out' = WaitReport(st)
    /\ lastFg' = spawnpid
    /\ ExecReturn
    /\ ResetDirective
    /\ pc' = "sweep"
    /\ UNCHANGED <<fgOnlyMode, cwd, shellExit, sweepVars, toggles,
                   reported,
                   shutdownRan>>


\* ------------------------------------------------------------------------
\* The child between fork and exec
\* ------------------------------------------------------------------------
\* the steps of the child's setup that can fail, in the order the child
\* takes them
ChildSteps(c) ==
    (IF c.hasIn THEN <<"open_in", "dup_in">>
     ELSE IF c.bg # 0 THEN <<"open_null_in", "dup_null_in">> ELSE <<>>)
    \o (IF c.hasOut THEN <<"open_out", "dup_out">>
        ELSE IF c.bg # 0 THEN <<"open_null_out", "dup_null_out">> ELSE <<>>)
    \o <<"exec">>

ErrorText(step) ==
    CASE step = "open_in" -> "cannot open input file"
      [] step = "dup_in" -> "dup2 input"
      [] step = "open_null_in" -> "dup2 input to /dev/null"
      [] step = "dup_null_in" -> "dup2 input to /dev/null"
      [] step = "open_out" -> "cannot open output file"
      [] step = "dup_out" -> "dup2 output"
      [] step = "open_null_out" -> "dup2 output to /dev/null"
      [] step = "dup_null_out" -> "dup2 output to /dev/null"
      [] step = "exec" -> "args[0]"

\* standard input and output once the first n steps have succeeded
StdinAfter(c, done) ==
    IF "dup_in" \in done THEN "file"
    ELSE IF "dup_null_in" \in done THEN "null" ELSE "tty"

StdoutAfter(c, done) ==
    IF "dup_out" \in done THEN "file"
    ELSE IF "dup_null_out" \in done THEN "null" ELSE "tty"

\* the descriptor a step opens when it succeeds
Opens(step, ok) ==
    IF ~ok THEN {}
    ELSE CASE step = "open_in" -> {"inputFD"}
           [] step = "open_null_in" -> {"devNull(in)"}
           [] step = "open_out" -> {"outputFD"}
           [] step = "open_null_out" -> {"devNull(out)"}
           [] OTHER -> {}

\* the descriptor the dup2 step works on
DupFd(step) ==
    CASE step = "dup_in" -> {"inputFD"}
      [] step = "dup_null_in" -> {"devNull(in)"}
      [] step = "dup_out" -> {"outputFD"}
      [] step = "dup_null_out" -> {"devNull(out)"}
      [] OTHER -> {}

\* the descriptors closed right after a step that succeeded (ok) or failed
ClosesOnSuccessOnly(step, ok) == IF ok THEN DupFd(step) ELSE {}

Closes(step, ok) == DupFd(step)

\* the redirection descriptors open after the steps from i on, when step k
\* fails (k = 0: none fails) and fds are open before step i
RECURSIVE FdsAfter(_, _, _, _)
FdsAfter(steps, k, i, fds) ==
    IF i > Len(steps) THEN fds
    ELSE IF i = k
        THEN (fds \cup Opens(steps[i], FALSE)) \ Closes(steps[i], FALSE)
    ELSE FdsAfter(steps, k, i + 1,
                  (fds \cup Opens(steps[i], TRUE)) \ Closes(steps[i], TRUE))

\* the child installs its SIGINT disposition, redirects and calls execvp;
\* k is the step that fails, 0 when none does
ChildSetup ==
    \E p \in Pids :
      /\ pc # "terminated"
      /\ children[p].state = "forked"
      /\ LET c == children[p]
             steps == ChildSteps(c)
         IN  \E k \in 0..Len(steps) :
               LET done == {steps[i] : i \in 1..(IF k = 0 THEN Len(steps) ELSE k - 1)}
                   c1 == [c EXCEPT !.sigint = ChildSigint(c.bg),
                                   !.fds = FdsAfter(steps, k, 1, {}),
                                   !.stdin = StdinAfter(c, done),
                                   !.stdout = StdoutAfter(c, done)]
               IN  IF k = 0
                     THEN /\ children' = [children EXCEPT ![p] =
                                            [c1 EXCEPT !.state = "running"]]
                          /\ out' = <<>>
                     ELSE /\ children' = [children EXCEPT ![p] =
                                            Terminated(c1, "exit",
                                                ChildFailureCode(steps[k]),
                                                TRUE)]
                          /\ out' = <<Perror(ErrorText(steps[k]))>>
      /\ UNCHANGED <<pc, shellVars, parseVars, launchVars, sweepVars, histVars>>

\* the program the child runs exits
ChildExit ==
    \E p \in Pids, e \in ExitCodes :
      /\ pc # "terminated"
      /\ children[p].state = "running"
      /\ children' = [children EXCEPT ![p] = Terminated(@, "exit", e, FALSE)]
      /\ out' = <<>>
      /\ UNCHANGED <<pc, shellVars, parseVars, launchVars, sweepVars, histVars>>

\* a signal sent to one child from outside the shell kills it
ChildKilled ==
    \E p \in Pids, s \in ExtSignals :
      /\ pc # "terminated"
      /\ children[p].state = "running"
      /\ children' = [children EXCEPT ![p] = Terminated(@, "signal", s, FALSE)]
      /\ out' = <<>>
      /\ UNCHANGED <<pc, shellVars, parseVars, launchVars, sweepVars, histVars>>

\* ------------------------------------------------------------------------
\* Signals from the terminal
\* ------------------------------------------------------------------------
\* Ctrl-C: SIGINT goes to the shell and to every child
SigInt ==
    /\ pc # "terminated"
    /\ children' = [p \in Pids |->
                      IF children[p].state = "running" /\ children[p].sigint = "DFL"
                        THEN Terminated(children[p], "signal", SIGINT, FALSE)
                        ELSE children[p]]
    /\ IF ShellSigint = "IGN"
         THEN UNCHANGED <<pc, shellExit,
                   shutdownRan>>
         ELSE pc' = "terminated" /\ shellExit' = "sigint"
    /\ out' = <<>>
    /\ UNCHANGED <<fgOnlyMode, lastStatus, cwd, parseVars, launchVars,
                   sweepVars, histVars>>

\* what becomes of a waitpid that the handler interrupts: the handler is
\* installed with SA_RESTART, so the call is restarted ("EINTR": it would
\* return -1 without storing a status)
InterruptedWaitFails == "EINTR"

InterruptedWait == "restart"

\* SIGTSTP delivered to the shell
handle_SIGTSTP ==
    /\ pc # "terminated"
    /\ fgOnlyMode' = ToggledMode(fgOnlyMode)
    /\ toggles' = 1 - toggles
    /\ IF pc = "wait" /\ InterruptedWait # "restart"
         THEN /\ out' = <<ToggleNotice(fgOnlyMode)>> \o WaitReport(lastStatus)
              /\ ExecReturn
              /\ ResetDirective
              /\ pc' = "sweep"
              /\ UNCHANGED <<lastStatus, cwd, shellExit, sweepVars, children,
                             lastFg, reported, shutdownRan>>
         ELSE /\ out' = <<ToggleNotice(fgOnlyMode)>>
              /\ modeStable' = IF pc \in {"dispatch", "fork", "parent"}
                                 THEN FALSE
                                 ELSE modeStable
              /\ UNCHANGED <<pc, lastStatus, cwd, shellExit, parseVars,
                             launchVars, sweepVars, children, line, entryFg,
                             lastFg, reported, shutdownRan>>

\* ------------------------------------------------------------------------
\* Specifications
\* ------------------------------------------------------------------------
MainStep ==
    \/ SweepReap \/ SweepReport \/ SweepDone
    \/ ReadLine \/ ReadEOF
    \/ ParseInput \/ ParseMallocFail
    \/ DoExit \/ DoCd \/ DoStatus
    \/ ExecEntry \/ Fork \/ ForkFail
    \/ ParentBackground \/ ParentWait \/ WaitReturn

Next ==
    \/ SweepReap \/ SweepReport \/ SweepDone
    \/ ReadLine \/ ReadEOF
    \/ ParseInput \/ ParseMallocFail
    \/ DoExit \/ DoCd \/ DoStatus
    \/ ExecEntry \/ Fork \/ ForkFail
    \/ ParentBackground \/ ParentWait \/ WaitReturn
    \/ ChildSetup \/ ChildExit \/ ChildKilled
    \/ SigInt \/ handle_SIGTSTP

Spec == Init /\ [][Next]_vars


\* ------------------------------------------------------------------------
\* The loop that keeps iterating: the user keeps typing commands, fork and
\* malloc succeed, the shell and the children are scheduled, and the
\* programs the shell starts end.
\* ------------------------------------------------------------------------
LiveLines ==
    { <<>> } \cup
    { Pad(l, LineLen) : l \in {STATUS, LS, Join(<<LS, AMP>>)} }

ReadLiveLine == ReadLineFrom(LiveLines)

LiveMainStep ==
    \/ SweepReap \/ SweepReport \/ SweepDone
    \/ ReadLiveLine \/ ReadEOF
    \/ ParseInput
    \/ DoStatus
    \/ ExecEntry \/ Fork
    \/ ParentBackground \/ ParentWait \/ WaitReturn

LiveNext ==
    \/ SweepReap \/ SweepReport \/ SweepDone
    \/ ReadLiveLine \/ ReadEOF
    \/ ParseInput
    \/ DoStatus
    \/ ExecEntry \/ Fork
    \/ ParentBackground \/ ParentWait \/ WaitReturn
    \/ ChildSetup \/ ChildExit \/ ChildKilled
    \/ SigInt \/ handle_SIGTSTP

LiveSpec ==
    /\ Init
    /\ [][LiveNext]_vars
    /\ WF_vars(LiveMainStep)
    /\ WF_vars(ChildSetup)
    /\ WF_vars(ChildExit)

\* ------------------------------------------------------------------------
\* parseInput on all short lines: the loop up to the return of parseInput
\* ------------------------------------------------------------------------
\* number of tokens of a line
MaxTokens == 3

ParseTokens == {LS, AMP, LT, GT, FileF, HASH}

RECURSIVE TokenSeqs(_)
TokenSeqs(n) ==
    IF n = 0 THEN {<<>>}
    ELSE LET shorter == TokenSeqs(n - 1)
         IN  shorter \cup {Append(ts, t) : ts \in {x \in shorter : Len(x) = n - 1},
                                          t \in ParseTokens}

ParseLines == {Join(ts) : ts \in TokenSeqs(MaxTokens)}

\* after a skipped line that left a redirection behind, the user types a
\* plain command
ReadParseLine ==
    ReadLineFrom(IF inputFile = 0 /\ outputFile = 0 THEN ParseLines ELSE {LS})

ParseNext ==
    \/ SweepDone
    \/ ReadParseLine
    \/ ParseInput
    \/ handle_SIGTSTP

ParseSpec == Init /\ [][ParseNext]_vars

\* ------------------------------------------------------------------------
\* parseInput on lines that fill args[]: the same loop with an array of
\* SmallArgs entries, so that lines of MaxTokens tokens reach the capacity
\* ------------------------------------------------------------------------
\* capacity of args[] in these runs
SmallArgs == 3

ParseSmall == ParseInputWith(SmallArgs)

CapNext ==
    \/ SweepDone
    \/ ReadParseLine
    \/ ParseSmall
    \/ handle_SIGTSTP

CapSpec == Init /\ [][CapNext]_vars

\* ------------------------------------------------------------------------
\* expandPID on all short tokens: the shell has just read a line that holds
\* one token
\* ------------------------------------------------------------------------
\* length of the token
MaxTokenLen == 4

TokenChars == {"a", "4", "$"}

RECURSIVE Strings(_)
Strings(n) ==
    IF n = 0 THEN {<<>>}
    ELSE LET shorter == Strings(n - 1)
         IN  shorter \cup {Append(t, c) : t \in {x \in shorter : Len(x) = n - 1},
                                          c \in TokenChars}

ExpandTokens == Strings(MaxTokenLen) \ {<<>>}

ExpandInit ==
    /\ pc = "parse"
    /\ line \in ExpandTokens
    /\ input = Fgets(<<>>, line)
    /\ fgOnlyMode = 0
    /\ lastStatus = 0
    /\ args = <<>>
    /\ inputFile = 0
    /\ outputFile = 0
    /\ background = 0
    /\ bgLocal = 0
    /\ spawnpid = 0
    /\ sweepPid = 0
    /\ childStatus = 0
    /\ children = <<>>
    /\ cwd = StartDir
    /\ shellExit = "running"
    /\ out = <<>>
    /\ entryFg = 0
    /\ modeStable = TRUE
    /\ toggles = 0
    /\ lastFg = 0
    /\ reported = <<>>
    /\ shutdownRan = FALSE

ExpandNext ==
    \/ ParseInput
    \/ ParseMallocFail

ExpandSpec == ExpandInit /\ [][ExpandNext]_vars

\* ------------------------------------------------------------------------
\* killBackgroundProcesses, called with background children in any state
\* ------------------------------------------------------------------------
\* kill(p, sig) for a signal that cannot be caught: it ends a live process
\* and does nothing to a terminated or collected one
Kill(ch, p, sig) ==
    IF ch[p].state \in {"forked", "running"}
        THEN [ch EXCEPT ![p] = Terminated(@, "signal", sig, FALSE)]
    ELSE ch

\* one iteration of the loop: waitpid(-1, NULL, WNOHANG) collects a
\* terminated child, then kill(pid, SIGKILL)
KillReap ==
    /\ pc = "kill"
    /\ \E p \in Pids :
          /\ children[p].state = "zombie"
          /\ children' = Kill(Reap(p, "shutdown"), p, SIGKILL)
    /\ out' = <<>>
    /\ UNCHANGED <<pc, shellVars, parseVars, launchVars, sweepVars, histVars>>

\* waitpid finds no terminated child: the function returns
KillDone ==
    /\ pc = "kill"
    /\ \A p \in Pids : children[p].state # "zombie"
    /\ pc' = "killed"
    /\ shutdownRan' = TRUE
    /\ out' = <<>>
    /\ UNCHANGED <<shellVars, parseVars, launchVars, sweepVars, children,
                   line, entryFg, modeStable, toggles, lastFg, reported>>

\* a background child that runs its program
BgRunning ==
    [state |-> "running", bg |-> 1, sigint |-> ChildSigint(1),
     hasIn |-> FALSE, inFile |-> <<>>, hasOut |-> FALSE, outFile |-> <<>>,
     stdin |-> "null", stdout |-> "null", fds |-> {},
     how |-> "none", code |-> 0, failed |-> FALSE,
     announced |-> TRUE, reapedBy |-> "none"]

\* the states a background child can be in when the function is called
BgChildren ==
    {BgRunning}
    \cup {Terminated(BgRunning, "exit", e, FALSE) : e \in ExitCodes}
    \cup {Terminated(BgRunning, "signal", g, FALSE) : g \in ExtSignals}
    \cup {[Terminated(BgRunning, "exit", 0, FALSE)
              EXCEPT !.state = "reaped", !.reapedBy = "sweep"]}

KillInit ==
    /\ pc = "kill"
    /\ \E n \in 1..MaxChildren : children \in [1..n -> BgChildren]
    /\ reported = [p \in Pids |->
                     IF children[p].state = "reaped" THEN 1 ELSE 0]
    /\ fgOnlyMode = 0
    /\ lastStatus = 0
    /\ input = <<>>
    /\ args = <<>>
    /\ inputFile = 0
    /\ outputFile = 0
    /\ background = 0
    /\ bgLocal = 0
    /\ spawnpid = 0
    /\ sweepPid = 0
    /\ childStatus = 0
    /\ cwd = StartDir
    /\ shellExit = "running"
    /\ out = <<>>
    /\ line = <<>>
    /\ entryFg = 0
    /\ modeStable = TRUE
    /\ toggles = 0
    /\ lastFg = 0
    /\ shutdownRan = FALSE

KillNext ==
    \/ KillReap
    \/ KillDone
    \/ ChildExit
    \/ ChildKilled

KillSpec == KillInit /\ [][KillNext]_vars

\* ------------------------------------------------------------------------
\* Properties
\* ------------------------------------------------------------------------
\* the tokens of a line: its maximal runs of non-blank characters
RECURSIVE Tokens(_)
Tokens(l) ==
    IF l = <<>> THEN <<>>
    ELSE IF Head(l) = SP THEN Tokens(Tail(l))
    ELSE LET n == Scan(l, 1, {SP}) - 1
         IN  <<SubSeq(l, 1, n)>> \o Tokens(SubSeq(l, n + 1, Len(l)))

EndsInAmp(l) == Tokens(l) # <<>> /\ Tokens(l)[Len(Tokens(l))] = AMP

IsSkipLine(l) == Tokens(l) = <<>> \/ Tokens(l)[1][1] = "#"

PrintsBackgroundPid(o) == \E i \in 1..Len(o) : o[i].msg = "background pid is"

\* C1: a launch entered in foreground-only mode prints no "background pid
\* is" line and the shell leaves it only through the blocking wait, which
\* returns once the child has terminated - whatever background flag the line
\* asked for and whatever SIGTSTP does before or during the launch.
C1_ForegroundOnlyLaunchBlocks ==
    [][ (entryFg = 1 /\ pc \in {"fork", "parent", "wait"}) =>
          /\ ~PrintsBackgroundPid(out')
          /\ (pc = "parent" /\ pc' # pc) => pc' = "wait"
          /\ (pc = "wait" /\ pc' # pc) =>
                /\ children[spawnpid].state = "zombie"
                /\ children'[spawnpid].state = "reaped"
                /\ pc' = "sweep" ]_vars

\* a background request parsed in Normal mode, the launcher entered in
\* foreground-only mode, the mode toggled back before the parent's test
C1_Witness ==
    /\ pc = "wait"
    /\ entryFg = 1
    /\ background = 1
    /\ fgOnlyMode = 0

\* the outcome the last foreground child really had
TrueStatusLine ==
    IF lastFg = 0 THEN ExitValueLine(0)
    ELSE IF children[lastFg].how = "exit"
        THEN ExitValueLine(children[lastFg].code)
    ELSE TermSignalLine(children[lastFg].code)

StatusStep == pc = "dispatch" /\ args[1] = STATUS /\ pc' = "sweep"

\* C2: status prints "exit value N" with the exit code of the last
\* foreground child if it exited, "terminated by signal N" if a signal
\* killed it, and "exit value 0" before any foreground command.
C2_StatusReportsLastForeground ==
    [][ StatusStep => out' = <<TrueStatusLine>> ]_vars

\* C3: a line ending in & whose launch sees Normal mode throughout (at the
\* parse, at the entry of the launcher and at the parent's test) makes the
\* parent print "background pid is N" and return to the loop without
\* waiting and without touching lastStatus.
C3_BackgroundLaunchReturns ==
    [][ (pc = "parent" /\ pc' # pc /\ EndsInAmp(line)
           /\ modeStable /\ fgOnlyMode = 0) =>
          /\ pc' = "sweep"
          /\ out' = <<BackgroundPidLine(spawnpid)>>
          /\ lastStatus' = lastStatus
          /\ children'[spawnpid].state = children[spawnpid].state ]_vars


\* the completion line that matches what really happened to child p
TrueDoneLine(p) ==
    IF children[p].how = "exit"
        THEN Ln("background pid is done: exit value", p, children[p].code)
    ELSE Ln("background pid is done: terminated by signal", p, children[p].code)

BackgroundZombie(p) ==
    p \in Pids /\ children[p].announced /\ children[p].state = "zombie"

Swept(p) ==
    p \in Pids /\ children[p].state = "reaped" /\ children[p].reapedBy = "sweep"

\* C4: a terminated child that was started in the background is eventually
\* collected by a sweep (as long as the shell runs); the sweep that
\* collects a child in Normal mode prints that child's pid with its true
\* exit value or signal; no child is reported twice.
C4_BackgroundChildReportedOnce ==
    /\ [][ (pc = "sweepReport" /\ pc' # pc /\ fgOnlyMode = 0) =>
             /\ out' = <<TrueDoneLine(sweepPid)>>
             /\ reported'[sweepPid] = 1 ]_vars
    /\ [](\A p \in Pids : reported[p] <= 1)
    /\ \A p \in 1..MaxChildren :
          BackgroundZombie(p) ~> (Swept(p) \/ pc = "terminated")

\* a background child killed by a signal has been reported by a sweep
C4_Witness ==
    \E p \in Pids :
       /\ children[p].announced
       /\ children[p].how = "signal"
       /\ children[p].reapedBy = "sweep"
       /\ reported[p] = 1

\* C5: the shell does not end through exit without having run
\* killBackgroundProcesses.
C5_ExitRunsShutdown ==
    shellExit = "exit0" => shutdownRan

\* C6: the mode starts as Normal, every SIGTSTP flips it and writes the one
\* notice that names the new mode; after k deliveries the mode is
\* foreground-only iff k is odd.
C6_ToggleFlipsModeWithNotice ==
    /\ [](fgOnlyMode = toggles)
    /\ [][ toggles' # toggles =>
             /\ fgOnlyMode' = 1 - fgOnlyMode
             /\ out' = <<IF fgOnlyMode' = 1 THEN EnterNotice ELSE ExitNotice>>
         ]_vars

\* the second of two toggles has just brought the shell back to Normal
C6_Witness ==
    /\ toggles = 0
    /\ fgOnlyMode = 0
    /\ out = <<ExitNotice>>

SetUp(c) == c.state \in {"running", "zombie", "reaped"}

\* C7: SIGINT never ends the shell and never kills a child launched in the
\* background; a child launched in the background ignores SIGINT, a child
\* launched in the foreground has the default disposition, and a running
\* child with the default disposition is the one the launcher is about to
\* wait for or waiting for.
C7_SigintOnlyHitsForegroundChild ==
    /\ shellExit # "sigint"
    /\ \A p \in Pids :
         LET c == children[p]
         IN  /\ (c.how = "signal" /\ c.code = SIGINT) => (c.bg = 0 /\ ~c.announced)
             /\ SetUp(c) => c.sigint = (IF c.bg # 0 THEN "IGN" ELSE "DFL")
             /\ (SetUp(c) /\ c.announced) => c.sigint = "IGN"
             /\ (c.state = "running" /\ c.sigint = "DFL") =>
                   (spawnpid = p /\ pc \in {"parent", "wait"})

\* Ctrl-C has killed the foreground child while a background child runs on
C7_Witness ==
    /\ shellExit = "running"
    /\ \E p, q \in Pids :
          /\ children[p].how = "signal" /\ children[p].code = SIGINT
          /\ children[q].announced /\ children[q].state = "running"

\* C8: a child whose redirection or exec fails ends with an error report
\* and a non-zero exit code while the shell is left as it is; the shell then
\* returns from the wait to the loop, and status after such a foreground
\* command prints that non-zero exit value.
C8_ChildFailureStaysInChild ==
    /\ [][ \A p \in Pids :
             (children[p].state = "forked" /\ children'[p].state = "zombie") =>
                /\ children'[p].how = "exit"
                /\ children'[p].code # 0
                /\ out' # <<>>
                /\ UNCHANGED <<pc, shellVars, parseVars, launchVars>> ]_vars
    /\ [][ (pc = "wait" /\ pc' # pc /\ children[spawnpid].failed) =>
             /\ pc' = "sweep"
             /\ shellExit' = "running"
             /\ WIFEXITED(lastStatus') /\ WEXITSTATUS(lastStatus') # 0 ]_vars
    /\ [][ (StatusStep /\ lastFg # 0 /\ children[lastFg].failed) =>
             /\ children[lastFg].code # 0
             /\ out' = <<ExitValueLine(children[lastFg].code)>> ]_vars

\* status has just reported the failure of a foreground command
C8_Witness ==
    /\ lastFg # 0
    /\ children[lastFg].failed
    /\ pc = "sweep"
    /\ out = <<ExitValueLine(1)>>

\* the arguments a line stands for: its tokens in order, without each < or >
\* and the token after it, and without a final &
RECURSIVE ExpectedArgs(_)
ExpectedArgs(toks) ==
    IF toks = <<>> THEN <<>>
    ELSE IF Head(toks) \in {LT, GT}
        THEN ExpectedArgs(SubSeq(toks, 3, Len(toks)))
    ELSE IF Head(toks) = AMP /\ Len(toks) = 1 THEN <<>>
    ELSE <<expandPID(Head(toks))>> \o ExpectedArgs(Tail(toks))

\* C9: the argument list of a dispatched line is the line's tokens in
\* order, minus the redirections and a final &; background is requested
\* only when & is the last token.
C9_ArgsAreTheTokens ==
    pc = "dispatch" =>
       /\ args = ExpectedArgs(Tokens(line))
       /\ background = 1 => EndsInAmp(line)

\* C10: a line that is empty or blank, or whose first token starts with #,
\* is skipped: parseInput returns 0 and main goes back to the top of the
\* loop with no output, no child forked, no builtin run, and lastStatus,
\* the mode and the working directory as they were.
C10_SkippedLineRunsNothing ==
    [][ (pc = "parse" /\ pc' # pc /\ shellExit' = "running" /\ IsSkipLine(line)) =>
          /\ Parsed.ret = 0
          /\ pc' = "sweep"
          /\ out' = <<>>
          /\ UNCHANGED <<shellVars, children, launchVars, lastFg, reported>>
      ]_vars

\* a comment line that held a redirection has just been skipped while a
\* child exists
C10_Witness ==
    /\ pc = "sweep"
    /\ line = <<>>
    /\ outputFile # 0
    /\ children # <<>>

HasMarker(t) == \E i \in 1..(Len(t) - 1) : t[i] = "$" /\ t[i + 1] = "$"

FirstMarker(t) ==
    CHOOSE i \in 1..(Len(t) - 1) :
       /\ t[i] = "$" /\ t[i + 1] = "$"
       /\ \A j \in 1..(i - 1) : ~(t[j] = "$" /\ t[j + 1] = "$")

DigitValue(c) ==
    CASE c = "0" -> 0 [] c = "1" -> 1 [] c = "2" -> 2 [] c = "3" -> 3
      [] c = "4" -> 4 [] c = "5" -> 5 [] c = "6" -> 6 [] c = "7" -> 7
      [] c = "8" -> 8 [] c = "9" -> 9 [] OTHER -> -1

\* the number a string of decimal digits denotes, -1 for any other string
RECURSIVE DecimalValue(_)
DecimalValue(d) ==
    IF d = <<>> \/ DigitValue(d[Len(d)]) < 0 THEN -1
    ELSE IF Len(d) = 1 THEN DigitValue(d[1])
    ELSE LET hi == DecimalValue(SubSeq(d, 1, Len(d) - 1))
         IN  IF hi < 0 THEN -1 ELSE 10 * hi + DigitValue(d[Len(d)])

\* r is token t with its first marker replaced by the decimal string of pid
IsExpansion(t, r, pid) ==
    LET i == FirstMarker(t)
        pre == SubSeq(t, 1, i - 1)
        post == SubSeq(t, i + 2, Len(t))
        d == SubSeq(r, i, Len(r) - Len(post))
    IN  /\ r = pre \o d \o post
        /\ DecimalValue(d) = pid
        /\ (Len(d) > 1 => d[1] # "0")

CdStep == pc = "dispatch" /\ args[1] = CD /\ pc' = "sweep"

\* the directory cd asks chdir to enter
CdTarget == IF Len(args) >= 2 THEN args[2] ELSE HomeDir

\* C12: cd enters its argument, or HOME without one; when the change fails
\* an error message is written, the working directory stays as it was and
\* the shell goes on to the next prompt.
C12_CdReportsFailure ==
    [][ CdStep =>
          /\ pc' = "sweep" /\ shellExit' = "running"
          /\ IF CdTarget \in Dirs
                THEN cwd' = CdTarget
                ELSE cwd' = cwd /\ out' # <<>> ]_vars

\* C13 as stated: whenever the shell has terminated, its exit code is 0.
C13_ExitCodeAlwaysZero ==
    pc = "terminated" => shellExit = "exit0"

\* C13, amended: the shell ends with exit code 0 exactly when it ends
\* through the exit builtin, and with exit code 1 exactly when it ends after
\* reporting a failed fork or a failed malloc; it ends in no other way.
C13_ExitCodeZeroOnlyForExit ==
    [][ (pc # "terminated" /\ pc' = "terminated") =>
          /\ shellExit' \in {"exit0", "exit1"}
          /\ shellExit' = "exit0" <=>
                (pc = "dispatch" /\ args[1] = EXIT /\ out' = <<>>)
          /\ shellExit' = "exit1" <=>
                \/ (pc = "fork" /\ out' = <<Perror("fork")>>)
                \/ (pc = "parse" /\ out' = <<Perror("malloc")>>) ]_vars

\* fork has failed while a child of an earlier launch exists: the shell has
\* ended with exit code 1
C13_Witness ==
    /\ pc = "terminated"
    /\ shellExit = "exit1"
    /\ out = <<Perror("fork")>>
    /\ children # <<>>

\* the child's own copy of the background flag makes it a foreground child:
\* default SIGINT disposition, no redirection to /dev/null
ConfiguredForeground(c) ==
    /\ ChildSigint(c.bg) = "DFL"
    /\ c.bg = 0

\* C14: the shell is blocked in the wait for a child only if that child is
\* configured as a foreground child, and it has announced a background pid
\* only for a child configured as a background child, whatever SIGTSTP
\* does during the launch.
C14_ParentAgreesWithChild ==
    /\ pc = "wait" => ConfiguredForeground(children[spawnpid])
    /\ \A p \in Pids :
          children[p].announced => ~ConfiguredForeground(children[p])

\* the tokens hold the operator op followed by a token (read left to right,
\* an operator taking the token after it)
RECURSIVE Redirects(_, _)
Redirects(toks, op) ==
    IF toks = <<>> THEN FALSE
    ELSE IF Head(toks) \in {LT, GT}
        THEN IF Head(toks) = op /\ Len(toks) >= 2 THEN TRUE
             ELSE Redirects(SubSeq(toks, 3, Len(toks)), op)
    ELSE Redirects(Tail(toks), op)

\* C15: the child forked for a line has an input (output) redirection path
\* exactly when that line holds < (>) followed by a token; nothing of an
\* earlier line, a skipped one included, carries over.
C15_DirectiveFromCurrentLine ==
    [][ (pc = "fork" /\ pc' = "parent") =>
          /\ children'[spawnpid'].hasIn <=> Redirects(Tokens(line), LT)
          /\ children'[spawnpid'].hasOut <=> Redirects(Tokens(line), GT) ]_vars

\* C16: once killBackgroundProcesses has returned, every child that was
\* still running has been sent SIGKILL: no child is left running.
C16_ShutdownKillsRunningChildren ==
    pc = "killed" =>
       \A p \in Pids : children[p].state \notin {"forked", "running"}

\* C17: a sweep returns only when no terminated child is left uncollected;
\* the iteration that has collected a child prints that child's completion
\* line exactly when foreground-only mode is off at its test of the mode,
\* and prints nothing otherwise; a completion line for a child is printed
\* by no other step, so a child collected silently is never reported later.
C17_SweepReportsIffNormalMode ==
    /\ [][ (pc = "sweep" /\ pc' = "sweepReport") =>
             /\ children[sweepPid'].state = "zombie"
             /\ children'[sweepPid'].state = "reaped" ]_vars
    /\ [][ (pc = "sweep" /\ pc' = "prompt") =>
             \A p \in Pids : children[p].state # "zombie" ]_vars
    /\ [][ (pc = "sweepReport" /\ pc' # pc) =>
             IF fgOnlyMode = 0
               THEN /\ out' = <<TrueDoneLine(sweepPid)>>
                    /\ reported'[sweepPid] = reported[sweepPid] + 1
               ELSE /\ out' = <<>>
                    /\ reported' = reported ]_vars
    /\ [][ \A p \in Pids :
             \/ reported'[p] = reported[p] /\ out' # <<TrueDoneLine(p)>>
             \/ pc = "sweepReport" /\ sweepPid = p ]_vars
    /\ [][ \A p \in Pids :
             (children[p].state = "reaped"
                /\ ~(pc = "sweepReport" /\ sweepPid = p)) =>
                   (children'[p].state = "reaped"
                      /\ reported'[p] = reported[p]) ]_vars

\* a background child was collected silently in foreground-only mode; the
\* mode is Normal again, the sweep has returned and the child is unreported
C17_Witness ==
    /\ pc = "prompt"
    /\ fgOnlyMode = 0
    /\ \E p \in Pids :
          /\ children[p].announced
          /\ children[p].reapedBy = "sweep"
          /\ reported[p] = 0

Zombies == {p \in Pids : children[p].state = "zombie"}

\* C18: a sweep never waits (at its waitpid it can always take a step,
\* running children or not) and always returns; each of its reaps collects
\* exactly one terminated child and touches no other; when no terminated
\* child is left it returns with no output of its own (main then prints
\* the prompt) and with the shell's state as it was.
C18_SweepNeverBlocks ==
    /\ [](pc = "sweep" => ENABLED (SweepReap \/ SweepDone))
    /\ [][ (pc = "sweep" /\ pc' = "sweepReport") =>
             /\ sweepPid' \in Zombies
             /\ \A p \in Pids \ {sweepPid'} : children'[p] = children[p]
             /\ out' = <<>> ]_vars
    /\ [][ (pc = "sweep" /\ pc' = "prompt") =>
             /\ Zombies = {}
             /\ out' = <<Prompt>>
             /\ UNCHANGED <<shellVars, parseVars, launchVars, children,
                            lastFg, reported>> ]_vars
    /\ (pc \in {"sweep", "sweepReport"}) ~> (pc = "prompt")

\* a sweep has collected one child and returned while another child is
\* still running
C18_Witness ==
    /\ pc = "prompt"
    /\ \E p, q \in Pids :
          /\ children[p].state = "running"
          /\ children[q].reapedBy = "sweep"

PrintsTermSignal(o) ==
    \E i \in 1..Len(o) : o[i].msg = "terminated by signal"

\* C19: when the wait for a foreground child returns, lastStatus holds the
\* child's outcome (exited with its code, or killed by its signal); the
\* step prints the one line "terminated by signal N" if a signal killed the
\* child and nothing if it exited, whatever its code; no other step prints
\* such a line.
C19_WaitStoresOutcomeAndReportsSignal ==
    /\ [][ (pc = "wait" /\ pc' # pc) =>
             LET c == children[spawnpid]
             IN  IF c.how = "exit"
                   THEN /\ WIFEXITED(lastStatus')
                        /\ ~WIFSIGNALED(lastStatus')
                        /\ WEXITSTATUS(lastStatus') = c.code
                        /\ out' = <<>>
                   ELSE /\ WIFSIGNALED(lastStatus')
                        /\ ~WIFEXITED(lastStatus')
                        /\ WTERMSIG(lastStatus') = c.code
                        /\ out' = <<TermSignalLine(c.code)>> ]_vars
    /\ [][ PrintsTermSignal(out') => (pc = "wait" /\ pc' = "sweep") ]_vars

\* Ctrl-C has killed the foreground child and the wait has just returned
C19_Witness ==
    /\ pc = "sweep"
    /\ lastFg # 0
    /\ children[lastFg].how = "signal"
    /\ children[lastFg].code = SIGINT
    /\ lastStatus = SIGINT
    /\ out = <<TermSignalLine(SIGINT)>>

\* C20: whenever a child has called execvp or has ended in its setup, none
\* of the descriptors it opened for redirection (of a file or of /dev/null,
\* for input or output) was still open at that call.
C20_RedirectionDescriptorsClosed ==
    \A p \in Pids : SetUp(children[p]) => children[p].fds = {}

\* a child has just ended because dup2 on its output file failed
C20_Witness ==
    /\ out = <<Perror("dup2 output")>>
    /\ \E p \in Pids :
          /\ children[p].state = "zombie"
          /\ children[p].failed
          /\ children[p].fds = {}

AmpCount(l) == Cardinality({i \in 1..Len(Tokens(l)) : Tokens(l)[i] = AMP})

\* the line holds no & other than a final one
NoInnerAmp(l) == AmpCount(l) = 0 \/ (AmpCount(l) = 1 /\ EndsInAmp(l))

Min(a, b) == IF a < b THEN a ELSE b

\* C21: with an args[] of N = SmallArgs entries, a dispatched line has at
\* most N-1 arguments, so the terminator written after the last one lies
\* inside the array; the arguments are the first ones the line stands for
\* (the later ones are dropped); and a line with N-1 or more arguments,
\* the first not a comment, is dispatched with exactly N-1 of them.  Lines
\* with an & before the end are left to C9.
C21_ArgsWithinCapacity ==
    /\ [](pc = "dispatch" =>
            /\ Len(args) >= 1
            /\ Len(args) + 1 <= SmallArgs
            /\ NoInnerAmp(line) =>
                  LET all == ExpectedArgs(Tokens(line))
                  IN  args = SubSeq(all, 1, Min(Len(all), SmallArgs - 1)))
    /\ [][ (pc = "parse" /\ pc' # pc
              /\ NoInnerAmp(line)
              /\ Len(ExpectedArgs(Tokens(line))) >= SmallArgs - 1
              /\ ExpectedArgs(Tokens(line))[1][1] # "#") =>
             /\ pc' = "dispatch"
             /\ Len(args') = SmallArgs - 1 ]_vars

\* a line of three plain tokens has been dispatched with two arguments
C21_Witness ==
    /\ pc = "dispatch"
    /\ line = Join(<<LS, FileF, LS>>)
    /\ args = <<LS, FileF>>

\* lastStatus is the status of the last child collected by the blocking
\* wait (0 when there has been none)
LastStatusIsLastWaited ==
    IF lastFg = 0 THEN lastStatus = 0
    ELSE /\ lastStatus = WaitStatus(children[lastFg].how, children[lastFg].code)
         /\ children[lastFg].reapedBy = "wait"
         /\ ~children[lastFg].announced

\* the return of the blocking wait for the child spawnpid
WaitReturns ==
    /\ pc = "wait"
    /\ pc' = "sweep"
    /\ children[spawnpid].state = "zombie"
    /\ children'[spawnpid].reapedBy = "wait"

\* C22: lastStatus always holds the status of the child last collected by
\* the blocking wait, never that of a child announced as a background pid or
\* collected by a sweep; every step that is not the return of that wait
\* (background launch, sweep, builtin, skipped line, SIGTSTP toggle, a
\* child's own progress) leaves lastStatus as it was.
C22_LastStatusOnlyFromWait ==
    /\ []LastStatusIsLastWaited
    /\ [][ ~WaitReturns => lastStatus' = lastStatus ]_vars
    /\ [][ ( \/ pc \in {"sweep", "sweepReport", "parse", "dispatch", "parent"}
             \/ toggles' # toggles ) => lastStatus' = lastStatus ]_vars

\* after a foreground child left a nonzero status, a background child with
\* another status was collected by a sweep under a toggled mode, and
\* lastStatus still holds the foreground child's status
C22_Witness ==
    /\ lastFg = 1
    /\ lastStatus # 0
    /\ Len(children) = 2
    /\ children[2].announced
    /\ children[2].reapedBy = "sweep"
    /\ WaitStatus(children[2].how, children[2].code) # lastStatus
    /\ toggles > 0

\* the child p has been collected by the blocking wait
ReapedByWait(p) ==
    /\ children[p].state = "reaped"
    /\ children[p].reapedBy = "wait"

\* the shell is between the fork and the return of the blocking wait
Launching == pc \in {"parent", "wait"}

\* C23: a child that was not announced with "background pid is" is the
\* child being launched or waited for, or has been collected by the
\* blocking wait, so none is left when the loop comes back to the sweep; a
\* SIGTSTP during the wait leaves the shell in the wait; a child collected
\* or reported by a sweep was announced before, and the sweep's completion
\* line is printed for an announced child only.
C23_ForegroundChildNeverSwept ==
    /\ [](\A p \in Pids :
            /\ ~children[p].announced =>
                  \/ ReapedByWait(p)
                  \/ Launching /\ p = spawnpid
            /\ children[p].reapedBy = "sweep" => children[p].announced
            /\ reported[p] > 0 =>
                  /\ children[p].announced
                  /\ children[p].reapedBy = "sweep")
    /\ [][ (pc = "wait" /\ toggles' # toggles) =>
             /\ pc' = "wait"
             /\ spawnpid' = spawnpid
             /\ children' = children ]_vars
    /\ [][ (pc = "wait" /\ pc' # "wait") =>
             /\ children'[spawnpid].state = "reaped"
             /\ children'[spawnpid].reapedBy = "wait" ]_vars
    /\ [][ reported' # reported =>
             \/ pc = "fork"
             \/ /\ pc = "sweepReport"
                /\ children[sweepPid].announced
                /\ children[sweepPid].reapedBy = "sweep" ]_vars

\* the shell is blocked in the wait for the running child 2, a SIGTSTP has
\* just been handled there, and the sweep has reported the announced child 1
C23_Witness ==
    /\ pc = "wait"
    /\ spawnpid = 2
    /\ children[2].state = "running"
    /\ ~children[2].announced
    /\ out = <<EnterNotice>>
    /\ children[1].announced
    /\ reported[1] = 1

====
